---- MODULE Spec2Model ----
(***************************************************************************)
(* Model of the sync manager of app/db-sync/sync_manager.py: the class     *)
(* DatabaseSync (configuration load and reload, job setup, the manager     *)
(* loop, one sync run and the status file it writes).                      *)
(*                                                                         *)
(* The module-level object `scheduler` is modelled by the calls the class  *)
(* makes on it: every().<unit>[.at(t)].do(f) appends a job to its job      *)
(* list, clear() empties the job list, run_pending() runs the due jobs one *)
(* after the other on the calling thread.  Wall-clock time is abstracted:  *)
(* any job in the list may be due at any iteration of the manager loop.    *)
(* (Line 81 constructs the object as an APScheduler BackgroundScheduler,   *)
(* a class that defines none of every, clear and run_pending; the model    *)
(* follows the calls, which are those of a job list run by the caller.)    *)
(* The status file is taken to be readable and writable.                   *)
(*                                                                         *)
(* The same file holds the metric history (collect_metrics, which the      *)
(* scheduler's metric_collector job calls on a thread of its own, and the  *)
(* performance-history endpoint, which a request thread runs) and the      *)
(* AIManager with its choice of a provider.                                *)
(***************************************************************************)
EXTENDS Integers, Sequences, FiniteSets, TLC

VARIABLES
    store,      \* content of CONFIG_PATH (sync.enabled, sync.connections)
    changed,    \* os.path.getmtime(CONFIG_PATH) > last_modified
    edits,      \* number of edits of the file so far
    config,     \* self.config
    jobs,       \* the scheduler's job list
    pc,         \* position of the manager thread ("stopped": run() has raised)
    setupIdx,   \* index of the connection setup_jobs handles next
    booted,     \* run() is past its last_modified initialisation
    running,    \* the _run_sync calls in progress
    statuses,   \* content of /app/logs/sync_status.json
    clock,      \* number of _run_sync calls made so far (orders datetime.now())
    lastRun,    \* what the most recently returned _run_sync call did
    pass,       \* what the most recent _reload_config found and cleared
    metrics_history, \* the series cpu and memory, a sample given by its number
    collector,  \* position of collect_metrics, and the calls it has finished
    response,   \* what the performance-history endpoint answered last
    ai_manager, \* AIManager: config["default_provider"] and self.providers
    best        \* what get_best_provider returned last, and for which providers

\* the state of the sync manager, and the state of the rest of the module
syncVars == <<store, changed, edits, config, jobs, pc, setupIdx, booted, running,
              statuses, clock, lastRun, pass>>

appVars == <<metrics_history, collector, response, ai_manager, best>>

vars == <<syncVars, appVars>>

\* ---------------------------------------------------------------- bounds
MaxEdits == 1
MaxRuns == 2

\* ------------------------------------------------------- optional values
None == <<>>
Some(x) == <<x>>
Get(o, default) == IF o = None THEN default ELSE o[1]

Range(s) == {s[i] : i \in DOMAIN s}

\* a YAML key written with an empty value is loaded as Python's None
NullBlock == [null |-> TRUE]
IsNull(block) == "null" \in DOMAIN block

\* dict.get(key, default) on a block given as a record
Field(block, key, default) == IF key \in DOMAIN block THEN block[key] ELSE default

RECURSIVE SelectSeqBy(_, _)
\* the subsequence of s whose elements are in the set keep
SelectSeqBy(s, keep) ==
    IF s = <<>> THEN <<>>
    ELSE (IF Head(s) \in keep THEN <<Head(s)>> ELSE <<>>) \o SelectSeqBy(Tail(s), keep)

\* ------------------------------------------------ connection descriptors
Names == {"a", "b"}

PG == [type |-> "postgresql"]

\* a schedule block; a key the block does not hold is None
Schedule(frequency, days) ==
    [frequency |-> frequency, time |-> None, days |-> days, day |-> None,
     custom |-> None]

Conn(name, enabled, schedule, startup, source, target, tables) ==
    [name |-> name, enabled |-> enabled, schedule |-> schedule,
     run_on_startup |-> startup, source |-> source, target |-> target,
     options |-> [tables_only |-> tables]]

\* the descriptors the scheduling claims range over
SchedVariants(n) ==
    { Conn(n, TRUE, Schedule(Some("hourly"), None), FALSE, PG, PG, <<"t1">>),
      Conn(n, TRUE, Schedule(Some("hourly"), None), TRUE, PG, PG, <<"t2">>),
      Conn(n, TRUE, Schedule(Some("weekly"), Some(<<1, 2>>)), FALSE, PG, PG, <<"t1">>),
      Conn(n, TRUE, Schedule(Some("never"), None), FALSE, PG, PG, <<"t1">>),
      Conn(n, TRUE, Schedule(None, None), FALSE, PG, PG, <<"t1">>),
      Conn(n, FALSE, Schedule(Some("hourly"), None), FALSE, PG, PG, <<"t1">>) }

\* the second connection, when present, is enabled and hourly
SchedDescs ==
    SchedVariants("a")
    \cup {d \in SchedVariants("b") :
             /\ d.enabled /\ ~d.run_on_startup
             /\ d.schedule.frequency = Some("hourly")}

\* a schedule block with all of its keys
ScheduleAt(frequency, time, days, day, custom) ==
    [frequency |-> frequency, time |-> time, days |-> days, day |-> day,
     custom |-> custom]

\* the descriptors the trigger claims range over: connection "a" with each
\* frequency, with and without the keys that go with it
TriggerDescs ==
    { Conn("a", TRUE, s, FALSE, PG, PG, <<"t1">>) :
        s \in { ScheduleAt(Some("hourly"), None, None, None, None),
                ScheduleAt(Some("hourly"), Some("03:30"), Some(<<3>>), None, None),
                ScheduleAt(Some("daily"), None, None, None, None),
                ScheduleAt(Some("daily"), Some("03:30"), None, None, None),
                ScheduleAt(Some("weekly"), None, None, None, None),
                ScheduleAt(Some("weekly"), Some("03:30"), Some(<<3, 7>>), None, None),
                ScheduleAt(Some("weekly"), None, Some(<<9>>), None, None),
                ScheduleAt(Some("monthly"), None, None, Some(15), None),
                ScheduleAt(Some("custom"), None, None, None, None),
                ScheduleAt(Some("custom"), None, None, None,
                           Some(<< <<"0", "30">>, <<"*">>, <<"*">>, <<"*">>, <<"*">> >>)) } }
    \cup
    { Conn("a", TRUE, ScheduleAt(Some("hourly"), None, None, None, None), FALSE,
           [type |-> "mysql"], [type |-> "mysql"], <<"t2">>),
      Conn("a", TRUE, ScheduleAt(Some("yearly"), Some("03:30"), None, None, None), TRUE,
           PG, PG, <<"t1">>) }

\* the descriptors the error-handling claims range over: connection "a" is
\* sound, or has a source, target or schedule key with an empty value, or
\* stores a password that has the shape of a ciphertext (hex, separator, hex)
\* and is none; connection "b" is sound
Secret == "9f86d081884c7d65:zz"

FaultDescs ==
    { Conn("a", TRUE, Schedule(Some("hourly"), None), FALSE, PG, PG, <<"t1">>),
      Conn("a", TRUE, Schedule(Some("hourly"), None), FALSE, NullBlock, PG, <<"t1">>),
      Conn("a", TRUE, Schedule(Some("hourly"), None), TRUE, PG, NullBlock, <<"t1">>),
      Conn("a", TRUE, NullBlock, TRUE, PG, PG, <<"t1">>),
      Conn("a", TRUE, Schedule(Some("hourly"), None), FALSE,
           [type |-> "postgresql", password |-> Secret], PG, <<"t1">>),
      Conn("b", TRUE, Schedule(Some("hourly"), None), FALSE, PG, PG, <<"t1">>) }

\* the descriptors the claims about startup runs range over: connection "a"
\* has run_on_startup and is hourly, or of a frequency that holds no job, or
\* has a schedule key with an empty value, or is disabled; connection "b"
\* comes after it, hourly, with and without run_on_startup
StartupDescs ==
    { Conn("a", TRUE, Schedule(Some("hourly"), None), TRUE, PG, PG, <<"t1">>),
      Conn("a", TRUE, Schedule(Some("yearly"), None), TRUE, PG, PG, <<"t1">>),
      Conn("a", TRUE, NullBlock, TRUE, PG, PG, <<"t1">>),
      Conn("a", FALSE, Schedule(Some("hourly"), None), TRUE, PG, PG, <<"t1">>),
      Conn("b", TRUE, Schedule(Some("hourly"), None), FALSE, PG, PG, <<"t1">>),
      Conn("b", TRUE, Schedule(Some("hourly"), None), TRUE, PG, PG, <<"t1">>) }

\* the descriptors the engine-dispatch claims range over: one hourly connection
\* per pair of source and target type
Hourly(n, source_type, target_type) ==
    Conn(n, TRUE, Schedule(Some("hourly"), None), FALSE,
         [type |-> source_type], [type |-> target_type], <<"t1">>)

PairDescs ==
    { Hourly("a", "mysql", "mysql"),
      Hourly("a", "influxdb", "influxdb"),
      Hourly("a", "mysql", "postgresql"),
      Hourly("a", "postgres", "PostgreSQL"),
      Hourly("a", "sqlite", "postgresql"),
      Hourly("a", "", "postgresql"),
      Hourly("b", "postgresql", "postgresql") }

\* the descriptors the claim about the aliases of PostgreSQL ranges over: one
\* hourly connection per pair of spellings of postgres and postgresql, and
\* connections whose source or target type is unsupported or missing
AliasDescs ==
    { Hourly("a", "postgresql", "postgresql"),
      Hourly("a", "postgres", "PostgreSQL"),
      Hourly("a", "postgresql", "Postgres"),
      Hourly("a", "POSTGRES", "postgres"),
      Hourly("a", "postgres", "mysql"),
      Hourly("a", "postgres", "sqlite"),
      Hourly("a", "sqlite", "postgres"),
      Conn("a", TRUE, Schedule(Some("hourly"), None), FALSE, [host |-> "h"], PG, <<"t1">>),
      Conn("a", TRUE, Schedule(Some("hourly"), None), TRUE, PG, [host |-> "h"], <<"t1">>) }

\* the descriptors the claims about the sync scripts range over: connection
\* "a" between two PostgreSQL or two MySQL databases, with the option
\* drop_target_first absent, false or true
WithOptions(connection, options) == [connection EXCEPT !.options = options]

ScriptDescs ==
    { Hourly("a", "postgresql", "postgresql"),
      WithOptions(Hourly("a", "postgresql", "postgresql"),
                  [tables_only |-> <<"t1">>, drop_target_first |-> TRUE]),
      WithOptions(Hourly("a", "mysql", "mysql"),
                  [tables_only |-> <<"t1">>, drop_target_first |-> FALSE]),
      WithOptions(Hourly("a", "mysql", "mysql"),
                  [tables_only |-> <<"t1">>, drop_target_first |-> TRUE]) }

\* the connection lists over a set D of descriptors: at most one per name
ConnLists(D) ==
    {<<>>} \cup {<<d>> : d \in D}
    \cup {<<d1, d2>> : d1 \in {d \in D : d.name = "a"}, d2 \in {d \in D : d.name = "b"}}

Stores(D) == [sync : [enabled : BOOLEAN, connections : ConnLists(D)]]

\* the connection called n in a connection list, if any
Lookup(conns, n) ==
    IF \E i \in DOMAIN conns : conns[i].name = n
    THEN Some(conns[CHOOSE i \in DOMAIN conns : conns[i].name = n])
    ELSE None

\* one edit of the file: sync.enabled flipped, or one connection added,
\* removed or replaced
OneEdit(s, t) ==
    /\ s # t
    /\ \/ s.sync.connections = t.sync.connections
       \/ /\ s.sync.enabled = t.sync.enabled
          /\ Cardinality({n \in Names :
                 Lookup(s.sync.connections, n) # Lookup(t.sync.connections, n)}) = 1

\* ------------------------------------------------------------ _load_config
\* a file that is not a YAML mapping with a sync block: it does not exist, it
\* cannot be opened, it is not valid YAML, or it is empty
FaultKinds == {"missing", "unreadable", "corrupt", "empty"}
Fault(kind) == [fault |-> kind]
IsFault(file) == "fault" \in DOMAIN file

\* os.path.exists(CONFIG_PATH)
Exists(file) == ~(IsFault(file) /\ file.fault = "missing")

DisabledConfig == [sync |-> [enabled |-> FALSE, connections |-> <<>>]]

\* yaml.safe_load gives None for an empty document, and None is returned
LoadConfig(file) ==
    IF ~IsFault(file) THEN file
    ELSE IF file.fault = "empty" THEN NullBlock
    ELSE DisabledConfig

\* ------------------------------------------------- _setup_connection_job
Trigger(unit, at, monthday) == [unit |-> unit, at |-> at, monthday |-> monthday]

\* the weekday unit of scheduler.every().<weekday> for a day number
DayUnit(day) ==
    CASE day = 1 -> Some("monday")
      [] day = 2 -> Some("tuesday")
      [] day = 3 -> Some("wednesday")
      [] day = 4 -> Some("thursday")
      [] day = 5 -> Some("friday")
      [] day = 6 -> Some("saturday")
      [] day = 7 -> Some("sunday")
      [] OTHER -> None

RECURSIVE WeeklyTriggers(_, _)
WeeklyTriggers(days, time_str) ==
    IF days = <<>> THEN <<>>
    ELSE (IF DayUnit(Head(days)) = None THEN <<>>
          ELSE <<Trigger(DayUnit(Head(days))[1], time_str, 0)>>)
         \o WeeklyTriggers(Tail(days), time_str)

RECURSIVE MinuteTriggers(_)
\* one job per comma-separated token of the cron minute field
MinuteTriggers(tokens) ==
    IF tokens = <<>> THEN <<>>
    ELSE <<Trigger("hour", Head(tokens), 0)>> \o MinuteTriggers(Tail(tokens))

\* the cron expression as its whitespace-separated fields, each field as its
\* comma-separated tokens; the default is "0 2 * * *"
DefaultCron == << <<"0">>, <<"2">>, <<"*">>, <<"*">>, <<"*">> >>

CustomTriggers(cron) ==
    IF Len(cron) # 5 THEN <<>>
    ELSE IF cron[1] = <<"*">> THEN <<Trigger("minute", "", 0)>>
    ELSE MinuteTriggers(cron[1])

\* schedule_config.get on a schedule block that is None raises AttributeError
SetupRaises(connection) == IsNull(connection.schedule)

Frequency(connection) == Get(connection.schedule.frequency, "daily")

\* a frequency no branch names falls back to the daily job
TriggersForDefaultDaily(connection) ==
    LET frequency == Frequency(connection)
        time_str == Get(connection.schedule.time, "02:00")
    IN  CASE frequency = "hourly" -> <<Trigger("hour", "", 0)>>
          [] frequency = "weekly" ->
                WeeklyTriggers(Get(connection.schedule.days, <<1>>), time_str)
          [] OTHER -> <<Trigger("day", time_str, 0)>>

\* the time of day is not read from the schedule block
TriggersForFixedTime(connection) ==
    LET schedule_config == connection.schedule
        frequency == Frequency(connection)
        time_str == "02:00"
    IN  CASE frequency = "hourly" -> <<Trigger("hour", "", 0)>>
          [] frequency = "daily" -> <<Trigger("day", time_str, 0)>>
          [] frequency = "weekly" ->
                WeeklyTriggers(Get(schedule_config.days, <<1>>), time_str)
          [] frequency = "monthly" ->
                <<Trigger("day", time_str, Get(schedule_config.day, 1))>>
          [] frequency = "custom" ->
                CustomTriggers(Get(schedule_config.custom, DefaultCron))
          [] OTHER -> <<>>

\* the triggers _setup_connection_job registers for a connection, in order
TriggersFor(connection) ==
    LET schedule_config == connection.schedule
        frequency == Frequency(connection)
        time_str == Get(schedule_config.time, "02:00")
    IN  CASE frequency = "hourly" -> <<Trigger("hour", "", 0)>>
          [] frequency = "daily" -> <<Trigger("day", time_str, 0)>>
          [] frequency = "weekly" ->
                WeeklyTriggers(Get(schedule_config.days, <<1>>), time_str)
          [] frequency = "monthly" ->
                <<Trigger("day", time_str, Get(schedule_config.day, 1))>>
          [] frequency = "custom" ->
                CustomTriggers(Get(schedule_config.custom, DefaultCron))
          [] OTHER -> <<>>

\* a job of the scheduler: job_function = lambda: self._run_sync(connection)
\* holds the connection it was created with
Job(connection, trigger) ==
    [owner |-> connection.name, conn |-> Some(connection), trigger |-> trigger]

\* scheduler.add_job(collect_metrics, 'interval', minutes=1, id='metric_collector')
MetricJob ==
    [owner |-> "metric_collector", conn |-> None, trigger |-> Trigger("minute", "", 0)]

JobsFor(connection) ==
    LET triggers == TriggersFor(connection)
    IN  [i \in DOMAIN triggers |-> Job(connection, triggers[i])]

\* clear() leaves the job list as it is
ClearKeepsAll(jobList) == jobList

\* scheduler.clear()
Clear(jobList) == <<>>

TaskJobs(jobList) == SelectSeqBy(jobList, {j \in Range(jobList) : j.conn # None})
JobsOf(jobList, n) == SelectSeqBy(jobList, {j \in Range(jobList) : j.owner = n})

\* ---------------------------------------------------------------- _run_sync
\* str.lower() on the type strings the model uses
Lower(t) ==
    CASE t = "PostgreSQL" -> "postgresql"
      [] t = "Postgres" -> "postgres"
      [] t = "POSTGRES" -> "postgres"
      [] t = "MySQL" -> "mysql"
      [] OTHER -> t

SupportedTypes == {"mysql", "postgresql", "postgres", "influxdb"}

\* source.get / target.get on a block that is None raises AttributeError
\* before the try block of the dispatch is entered
RunSyncRaises(connection) == IsNull(connection.source) \/ IsNull(connection.target)

\* the alias postgres is taken for an engine of its own
NormalizeKeepsAlias(t) == t

\* Normalize "postgres" to "postgresql"
Normalize(t) == IF t = "postgres" THEN "postgresql" ELSE t

\* -------------------------------------- mysql_sync.sh, postgresql_sync.sh
\* the commands of a sync script in the order of its text: the dump of the
\* source into DUMP_FILE, the drop and the creation of the target database
\* when DROP_TARGET is "true", the import of DUMP_FILE, and rm -f DUMP_FILE.
\* The target database is dropped and created before the source is dumped.
PgPlanDropFirst(drop_target) == <<"drop", "create", "dump", "import", "cleanup">>

\* DUMP_FILE is not removed
PgPlanKeepsDump(drop_target) ==
    <<"dump">> \o (IF drop_target THEN <<"drop", "create">> ELSE <<>>) \o <<"import">>

PgPlan(drop_target) ==
    <<"dump">> \o (IF drop_target THEN <<"drop", "create">> ELSE <<>>)
    \o <<"import", "cleanup">>

\* mysql_sync.sh drops and creates the target database in one mysql -e command
MysqlPlan(drop_target) ==
    <<"dump">> \o (IF drop_target THEN <<"drop">> ELSE <<>>) \o <<"import", "cleanup">>

\* the script goes on after a command that failed
ExecutedWithoutSetE(plan, failing) == plan

RECURSIVE Executed(_, _)
\* set -e: the commands a script runs when the command `failing` exits with a
\* non-zero status (all of them when none of them is `failing`)
Executed(plan, failing) ==
    IF plan = <<>> THEN <<>>
    ELSE IF Head(plan) = failing THEN <<Head(plan)>>
    ELSE <<Head(plan)>> \o Executed(Tail(plan), failing)

\* DUMP_FILE exists when the script has ended: the redirection of the dump
\* created it and no rm -f that succeeded removed it
DumpLeft(steps, failing) ==
    /\ "dump" \in Range(steps)
    /\ ~("cleanup" \in Range(steps) /\ failing # "cleanup")

\* "true" if options.get("drop_target_first", False) else "false"
DropTarget(options) == Field(options, "drop_target_first", FALSE)

\* what the external sync script does: exit 0, exit non-zero because one of
\* its commands failed, or it cannot be written or started at all (open /
\* chmod / subprocess.run raise)
ScriptOutcomes == {"ok", "dump", "drop", "create", "import", "cleanup", "oserror"}

\* the outcomes the claims about scheduling and records tell apart: of the
\* failing commands, the import stands for all
Outcomes == {"ok", "import", "oserror"}

\* the result of one _sync_* call: the script it ran, whether it raised, and
\* the text of the exception as its parts
Call(tool, raised, message) == [tool |-> tool, raised |-> raised, message |-> message]

ScriptCall(script, label, outcome) ==
    CASE outcome = "ok" -> Call(script, FALSE, <<>>)
      [] outcome = "oserror" -> Call("none", TRUE, <<"oserror">>)
      [] OTHER -> Call(script, TRUE, <<label, "sync failed:", "stderr">>)

SyncMysqlToMysql(outcome) == ScriptCall("mysql_sync.sh", "MySQL", outcome)

SyncPostgresqlToPostgresql(outcome) ==
    ScriptCall("postgresql_sync.sh", "PostgreSQL", outcome)

\* the passwords _sync_postgresql_to_postgresql puts on the command line of
\* the script
ScriptPasswords(source, target) ==
    [src_pass |-> Field(source, "password", ""),
     tgt_pass |-> Field(target, "password", "")]

SyncInfluxdbToInfluxdb ==
    Call("none", TRUE, <<"InfluxDB sync not fully implemented yet">>)

\* the placeholder logs its warning and returns
SyncGenericReturns(source, target) == Call("none", FALSE, <<>>)

SyncGeneric(source, target) ==
    Call("none", TRUE, <<"Generic sync from", Lower(source.type), "to",
                         Lower(target.type), "not fully implemented yet">>)

\* a password that does not decrypt fails the run before the engine is called
DispatchRejectsSecret(connection, outcome) ==
    LET source_type == Lower(Field(connection.source, "type", ""))
        target_type == Lower(Field(connection.target, "type", ""))
    IN  IF source_type = "" \/ target_type = "" THEN None
        ELSE IF source_type \notin SupportedTypes \/ target_type \notin SupportedTypes
        THEN None
        ELSE IF Secret \in {Field(connection.source, "password", ""),
                            Field(connection.target, "password", "")}
        THEN Some(Call("none", TRUE, <<"decryption failed">>))
        ELSE IF Normalize(source_type) = Normalize(target_type)
        THEN CASE Normalize(source_type) = "mysql" -> Some(SyncMysqlToMysql(outcome))
               [] Normalize(source_type) = "postgresql" ->
                     Some(SyncPostgresqlToPostgresql(outcome))
               [] OTHER -> Some(SyncInfluxdbToInfluxdb)
        ELSE Some(SyncGeneric(connection.source, connection.target))

\* the engine dispatch of _run_sync; None when the run returns before it
Dispatch(connection, outcome) ==
    LET source_type == Lower(Field(connection.source, "type", ""))
        target_type == Lower(Field(connection.target, "type", ""))
    IN  IF source_type = "" \/ target_type = "" THEN None
        ELSE IF source_type \notin SupportedTypes \/ target_type \notin SupportedTypes
        THEN None
        ELSE IF Normalize(source_type) = Normalize(target_type)
        THEN CASE Normalize(source_type) = "mysql" -> Some(SyncMysqlToMysql(outcome))
               [] Normalize(source_type) = "postgresql" ->
                     Some(SyncPostgresqlToPostgresql(outcome))
               [] OTHER -> Some(SyncInfluxdbToInfluxdb)
        ELSE Some(SyncGeneric(connection.source, connection.target))

\* the commands of the script a run of the connection starts, none when the
\* run starts no script
ScriptPlan(connection) ==
    IF RunSyncRaises(connection) THEN <<>>
    ELSE LET d == Dispatch(connection, "ok")
         IN  IF d = None THEN <<>>
             ELSE CASE d[1].tool = "postgresql_sync.sh" ->
                          PgPlan(DropTarget(connection.options))
                    [] d[1].tool = "mysql_sync.sh" ->
                          MysqlPlan(DropTarget(connection.options))
                    [] OTHER -> <<>>

StatusWrite(status, message) == [status |-> status, message |-> message]

\* the handler writes the error and falls through to the success update
StatusWritesNoReturn(call) ==
    IF call.raised
    THEN <<StatusWrite("error", call.message), StatusWrite("success", <<>>)>>
    ELSE <<StatusWrite("success", <<>>)>>

\* the handler records nothing for a failed sync
StatusWritesDropError(call) ==
    IF call.raised THEN <<>> ELSE <<StatusWrite("success", <<>>)>>

\* the _update_sync_status calls _run_sync makes after the dispatch, in order
StatusWrites(call) ==
    IF call.raised
    THEN <<StatusWrite("error", call.message)>>
    ELSE <<StatusWrite("success", <<>>)>>

\* ------------------------------------------------------ _update_sync_status
\* the existing statuses are not loaded before the update
UpdateSyncStatusReset(table, name, status, message, now) ==
    [n \in DOMAIN table |->
        IF n = name
        THEN Some([status |-> status, last_run |-> now, message |-> message])
        ELSE None]

UpdateSyncStatus(table, name, status, message, now) ==
    [table EXCEPT ![name] =
        Some([status |-> status, last_run |-> now, message |-> message])]

RECURSIVE ApplyWrites(_, _, _, _)
ApplyWrites(table, name, writes, now) ==
    IF writes = <<>> THEN table
    ELSE ApplyWrites(
             UpdateSyncStatus(table, name, Head(writes).status, Head(writes).message, now),
             name, Tail(writes), now)

\* ---------------------------------------------------------- collect_metrics
MAX_HISTORY == 60

\* the calls of collect_metrics, and those of them that raise, are bounded
MaxCollects == 62
MaxErrors == 1

MetricNames == {"cpu", "memory"}

\* the trim removes the newest sample
TrimDropsNewest(series) ==
    IF Len(series) > MAX_HISTORY THEN SubSeq(series, 1, Len(series) - 1) ELSE series

\* if len(series) > MAX_HISTORY: series.pop(0)
Trim(series) ==
    IF Len(series) > MAX_HISTORY THEN Tail(series) ELSE series

\* ------------------------------------------ get_performance_history_endpoint
\* the values of the query parameter limit; when it is absent the endpoint
\* takes MAX_HISTORY
Limits == {0, 2, MAX_HISTORY, MAX_HISTORY + 1}

\* the values of the query parameter metric: a series, or none of them
Metrics == MetricNames \cup {"disk"}

\* the Python slice series[start:] for an integer start of either sign
SliceFrom(series, start) ==
    LET n == Len(series)
        first == IF start < 0
                 THEN (IF n + start < 0 THEN 0 ELSE n + start)
                 ELSE (IF start > n THEN n ELSE start)
    IN  SubSeq(series, first + 1, n)

\* the answer of the endpoint: the series as the request found it, and
\* history_data = metrics_history[metric][-limit:]; 400 for any other metric
GetPerformanceHistory(history, metric, limit) ==
    IF metric \in DOMAIN history
    THEN [success |-> TRUE, metric |-> metric, limit |-> limit,
          series |-> history[metric],
          history |-> SliceFrom(history[metric], 0 - limit)]
    ELSE [success |-> FALSE, metric |-> metric, limit |-> limit,
          series |-> <<>>, history |-> <<>>]

\* ---------------------------------------------------------------- AIManager
\* provider_classes, which is also the order of the fallbacks
Priority == <<"openai", "perplexity", "llama", "sqlpal">>

ProviderNames == Range(Priority)

\* the values of default_provider in the configuration: one of the four
\* names, a name that is none of them, or null
DefaultProviders == {Some(n) : n \in ProviderNames \cup {"gemini"}} \cup {None}

\* an AIManager after _initialize_providers: self.providers holds the
\* providers the configuration enables
AiManagers == [default_provider : DefaultProviders, providers : SUBSET ProviderNames]

\* the first name of a list that is registered and available, if any
RECURSIVE FirstAvailable(_, _, _)
FirstAvailable(names, providers, available) ==
    IF names = <<>> THEN None
    ELSE IF Head(names) \in providers /\ Head(names) \in available
    THEN Some(Head(names))
    ELSE FirstAvailable(Tail(names), providers, available)

\* the default provider is not looked at
GetBestProviderByPriorityOnly(manager, available) ==
    FirstAvailable(Priority, manager.providers, available)

\* get_best_provider, with the providers whose is_available() holds
GetBestProvider(manager, available) ==
    LET default_provider == manager.default_provider
    IN  IF /\ default_provider # None
           /\ default_provider[1] \in manager.providers
           /\ default_provider[1] \in available
        THEN default_provider
        ELSE FirstAvailable(Priority, manager.providers, available)

\* the module as it is loaded: no samples, no request answered, and the
\* AIManager of the built-in configuration
AppInit ==
    /\ metrics_history = [m \in MetricNames |-> <<>>]
    /\ collector = [pc |-> "idle", done |-> 0, errors |-> 0]
    /\ response = None
    /\ ai_manager = [default_provider |-> Some("openai"), providers |-> ProviderNames]
    /\ best = None

\* ------------------------------------------------------------------ state
\* the owner and trigger of every job of a job list, in order
Triggers(jobList) ==
    [i \in DOMAIN jobList |->
        [owner |-> jobList[i].owner, trigger |-> jobList[i].trigger]]

NoPass == [done |-> FALSE, prev |-> <<>>, removed |-> 0, same |-> FALSE]

\* two configurations schedule the same: the same sync.enabled, the same
\* connections enabled, with the same schedule blocks
SameSchedules(c1, c2) ==
    /\ c1.sync.enabled = c2.sync.enabled
    /\ \A n \in Names :
          LET x == Lookup(c1.sync.connections, n)
              y == Lookup(c2.sync.connections, n)
          IN  /\ (x = None) = (y = None)
              /\ x # None =>
                    /\ x[1].enabled = y[1].enabled
                    /\ x[1].schedule = y[1].schedule

\* DatabaseSync() has loaded a file out of the set files; the scheduler holds
\* the metric job
InitFrom(files) ==
    /\ store \in files
    /\ config = LoadConfig(store)
    /\ changed = FALSE
    /\ edits = 0
    /\ jobs = <<MetricJob>>
    /\ pc = "start"
    /\ setupIdx = 0
    /\ booted = FALSE
    /\ running = <<>>
    /\ statuses = [n \in Names |-> None]
    /\ clock = 0
    /\ lastRun = None
    /\ pass = NoPass
    /\ AppInit

Init(D) == InitFrom(Stores(D))

\* the index setup_jobs starts at: past the end when it returns at once
SetupFrom(cfg) ==
    IF cfg.sync.enabled /\ cfg.sync.connections # <<>>
    THEN 1
    ELSE Len(cfg.sync.connections) + 1

\* a _run_sync call as it starts: the descriptor it was handed, who called
\* it, and the descriptor the file holds for that name at this moment
Frame(connection, caller) ==
    [conn |-> connection, caller |-> caller,
     atFire |-> IF IsFault(store) THEN None
                ELSE Lookup(store.sync.connections, connection.name)]

\* the file no longer asks for the runs of a frame's task: the task is gone
\* from it, or its frequency there is never
Stale(frame) ==
    \/ frame.atFire = None
    \/ /\ ~IsNull(frame.atFire[1].schedule)
       /\ frame.atFire[1].schedule.frequency = Some("never")

\* a run that failed stays in progress and is made again
UnwindRetriesFailed(frames, k, raised) ==
    IF raised THEN frames
    ELSE [i \in 1..(Len(frames) - 1) |-> IF i < k THEN frames[i] ELSE frames[i + 1]]

\* the _run_sync call k returns to its caller, whatever its result
Unwind(frames, k, raised) ==
    [i \in 1..(Len(frames) - 1) |-> IF i < k THEN frames[i] ELSE frames[i + 1]]

\* ---------------------------------------------------------------- actions
\* the file is edited from outside, or written anew where there was none
\* that could be loaded
EditStore(D) ==
    /\ edits < MaxEdits
    /\ \E t \in Stores(D) :
          /\ IF IsFault(store) THEN TRUE ELSE OneEdit(store, t)
          /\ store' = t
    /\ changed' = TRUE
    /\ edits' = edits + 1
    /\ UNCHANGED <<appVars, config, jobs, pc, setupIdx, booted, running, statuses, clock,
                   lastRun, pass>>

\* the file is removed, made unreadable, or overwritten with content that is
\* not a configuration
BreakFile ==
    /\ edits < MaxEdits
    /\ ~IsFault(store)
    /\ \E kind \in FaultKinds : store' = Fault(kind)
    /\ changed' = TRUE
    /\ edits' = edits + 1
    /\ UNCHANGED <<appVars, config, jobs, pc, setupIdx, booted, running, statuses, clock,
                   lastRun, pass>>

\* run(): self.setup_jobs()
Run ==
    /\ pc = "start"
    /\ pc' = "setup"
    /\ setupIdx' = SetupFrom(config)
    /\ UNCHANGED <<appVars, store, changed, edits, config, jobs, booted, running, statuses,
                   clock, lastRun, pass>>

\* the startup run is made only for a connection that got a job
SetupConnectionStartupIfJob ==
    /\ pc = "setup"
    /\ setupIdx <= Len(config.sync.connections)
    /\ LET conn == config.sync.connections[setupIdx]
       IN  IF ~conn.enabled \/ SetupRaises(conn)
           THEN UNCHANGED <<jobs, pc, running, clock>>
           ELSE /\ jobs' = jobs \o JobsFor(conn)
                /\ IF conn.run_on_startup /\ JobsFor(conn) # <<>>
                   THEN /\ clock < MaxRuns
                        /\ running' = Append(running, Frame(conn, "startup"))
                        /\ clock' = clock + 1
                        /\ pc' = "sync"
                   ELSE UNCHANGED <<pc, running, clock>>
    /\ setupIdx' = setupIdx + 1
    /\ UNCHANGED <<appVars, store, changed, edits, config, booted, statuses, lastRun, pass>>

\* one iteration of the loop of setup_jobs
SetupConnection ==
    /\ pc = "setup"
    /\ setupIdx <= Len(config.sync.connections)
    /\ LET conn == config.sync.connections[setupIdx]
       IN  IF ~conn.enabled \/ SetupRaises(conn)
           THEN UNCHANGED <<jobs, pc, running, clock>>
           ELSE /\ jobs' = jobs \o JobsFor(conn)
                /\ IF conn.run_on_startup
                   THEN /\ clock < MaxRuns
                        /\ running' = Append(running, Frame(conn, "startup"))
                        /\ clock' = clock + 1
                        /\ pc' = "sync"
                   ELSE UNCHANGED <<pc, running, clock>>
    /\ setupIdx' = setupIdx + 1
    /\ UNCHANGED <<appVars, store, changed, edits, config, booted, statuses, lastRun, pass>>

\* setup_jobs returns; after the first one run() records the file's mtime
SetupDone ==
    /\ pc = "setup"
    /\ setupIdx > Len(config.sync.connections)
    /\ pc' = "loop"
    /\ booted' = TRUE
    /\ changed' = IF booted THEN changed ELSE FALSE
    /\ UNCHANGED <<appVars, store, edits, config, jobs, setupIdx, running, statuses, clock,
                   lastRun, pass>>

\* a job body spawned on a thread of its own instead of being called
RunPendingAsync ==
    /\ pc = "loop"
    /\ clock < MaxRuns
    /\ \E k \in DOMAIN jobs :
          /\ jobs[k].conn # None
          /\ running' = Append(running, Frame(jobs[k].conn[1], "job"))
    /\ clock' = clock + 1
    /\ UNCHANGED <<appVars, store, changed, edits, config, jobs, pc, setupIdx, booted,
                   statuses, lastRun, pass>>

\* a clock of its own that fires due jobs whether or not the loop still runs
RunPendingAfterExit ==
    /\ pc \in {"loop", "exited"}
    /\ clock < MaxRuns
    /\ \E k \in DOMAIN jobs :
          /\ jobs[k].conn # None
          /\ running' = Append(running, Frame(jobs[k].conn[1], "job"))
    /\ clock' = clock + 1
    /\ pc' = "sync"
    /\ UNCHANGED <<appVars, store, changed, edits, config, jobs, setupIdx, booted, statuses,
                   lastRun, pass>>

\* scheduler.run_pending(): a due job's function is called on the loop's thread
RunPending ==
    /\ pc = "loop"
    /\ clock < MaxRuns
    /\ \E k \in DOMAIN jobs :
          /\ jobs[k].conn # None
          /\ running' = Append(running, Frame(jobs[k].conn[1], "job"))
    /\ clock' = clock + 1
    /\ pc' = "sync"
    /\ UNCHANGED <<appVars, store, changed, edits, config, jobs, setupIdx, booted, statuses,
                   lastRun, pass>>

\* the loop finds the file modified: _reload_config up to the call of setup_jobs
\* a configuration that is None makes setup_jobs raise on its first line, and
\* run() logs the exception and raises it again
ReloadConfig ==
    /\ pc = "loop"
    /\ Exists(store)
    /\ changed
    /\ changed' = FALSE
    /\ config' = LoadConfig(store)
    /\ pass' = [done |-> TRUE, prev |-> Triggers(jobs),
                removed |-> Len(TaskJobs(jobs)) - Len(TaskJobs(Clear(jobs))),
                same |-> /\ ~IsNull(LoadConfig(store))
                         /\ SameSchedules(config, LoadConfig(store))]
    /\ jobs' = Clear(jobs)
    /\ IF IsNull(LoadConfig(store))
       THEN pc' = "stopped" /\ setupIdx' = 0
       ELSE pc' = "setup" /\ setupIdx' = SetupFrom(LoadConfig(store))
    /\ UNCHANGED <<appVars, store, edits, booted, running, statuses, clock, lastRun>>

\* a _run_sync call runs to its return, or to the exception it lets escape:
\* setup_jobs catches that of a startup run, that of a job passes through
\* run_pending() to run(), which logs it and raises it again
FinishRunOn(outcomes) ==
    \E k \in DOMAIN running, outcome \in outcomes :
       LET f == running[k]
           escaped == RunSyncRaises(f.conn)
           d == IF escaped THEN None ELSE Dispatch(f.conn, outcome)
           writes == IF d = None THEN <<>> ELSE StatusWrites(d[1])
           steps == IF d = None \/ outcome = "oserror" THEN <<>>
                    ELSE Executed(ScriptPlan(f.conn), outcome)
       IN  /\ outcome \in {"ok", "oserror"} \cup Range(ScriptPlan(f.conn))
           /\ statuses' = ApplyWrites(statuses, f.conn.name, writes, clock)
           /\ lastRun' = Some([name |-> f.conn.name, caller |-> f.caller,
                               source_type |-> Field(f.conn.source, "type", ""),
                               target_type |-> Field(f.conn.target, "type", ""),
                               escaped |-> escaped,
                               stale |-> Stale(f),
                               dispatched |-> d # None,
                               tool |-> IF d = None THEN "none" ELSE d[1].tool,
                               raised |-> d # None /\ d[1].raised,
                               message |-> IF d = None THEN <<>> ELSE d[1].message,
                               drop_target |-> DropTarget(f.conn.options),
                               steps |-> steps,
                               failed |-> IF steps = <<>> \/ outcome = "ok" THEN "none"
                                          ELSE outcome,
                               dump_left |-> DumpLeft(steps, outcome),
                               writes |-> Len(writes),
                               at |-> clock,
                               prior |-> statuses[f.conn.name]])
           /\ running' = Unwind(running, k, d # None /\ d[1].raised)
           /\ pc' = IF pc # "sync" THEN pc
                    ELSE IF f.caller = "startup" THEN "setup"
                    ELSE IF escaped THEN "stopped"
                    ELSE "loop"
           /\ UNCHANGED <<appVars, store, changed, edits, config, jobs, setupIdx, booted,
                          clock, pass>>

FinishRun == FinishRunOn(Outcomes)

\* the process is told to end: KeyboardInterrupt is raised in the manager
\* thread, wherever it is; no handler of _run_sync catches it, subprocess.run
\* kills the script it waits for, and run() logs the stop and returns
Shutdown ==
    /\ pc \notin {"stopped", "exited"}
    /\ pc' = "exited"
    /\ running' = <<>>
    /\ UNCHANGED <<appVars, store, changed, edits, config, jobs, setupIdx, booted, statuses,
                   clock, lastRun, pass>>

\* the metric_collector job is in the scheduler's job list
MetricJobLive == \E j \in Range(jobs) : j = MetricJob

\* collect_metrics is called and psutil raises: the handler logs the error
\* and nothing is appended
CollectRaises ==
    /\ MetricJobLive
    /\ collector.pc = "idle"
    /\ collector.done + collector.errors < MaxCollects
    /\ collector.errors < MaxErrors
    /\ collector' = [collector EXCEPT !.errors = @ + 1]
    /\ UNCHANGED <<syncVars, metrics_history, response, ai_manager, best>>

\* collect_metrics is called and appends the sample to the series cpu
AppendCpu ==
    /\ MetricJobLive
    /\ collector.pc = "idle"
    /\ collector.done + collector.errors < MaxCollects
    /\ metrics_history' =
          [metrics_history EXCEPT !.cpu = Append(@, collector.done + 1)]
    /\ collector' = [collector EXCEPT !.pc = "append_memory"]
    /\ UNCHANGED <<syncVars, response, ai_manager, best>>

AppendMemory ==
    /\ collector.pc = "append_memory"
    /\ metrics_history' =
          [metrics_history EXCEPT !.memory = Append(@, collector.done + 1)]
    /\ collector' = [collector EXCEPT !.pc = "trim_cpu"]
    /\ UNCHANGED <<syncVars, response, ai_manager, best>>

TrimCpu ==
    /\ collector.pc = "trim_cpu"
    /\ metrics_history' = [metrics_history EXCEPT !.cpu = Trim(@)]
    /\ collector' = [collector EXCEPT !.pc = "trim_memory"]
    /\ UNCHANGED <<syncVars, response, ai_manager, best>>

\* the trim of the series memory, after which collect_metrics returns
TrimMemory ==
    /\ collector.pc = "trim_memory"
    /\ metrics_history' = [metrics_history EXCEPT !.memory = Trim(@)]
    /\ collector' = [collector EXCEPT !.pc = "idle", !.done = @ + 1]
    /\ UNCHANGED <<syncVars, response, ai_manager, best>>

\* a request to /api/system/performance-history is answered on its own
\* thread, wherever collect_metrics is
PerformanceHistoryRequest ==
    /\ \E metric \in Metrics, limit \in Limits :
          response' = Some(GetPerformanceHistory(metrics_history, metric, limit))
    /\ UNCHANGED <<syncVars, metrics_history, collector, ai_manager, best>>

\* AIManager._reload_config: another configuration is loaded and the
\* providers it enables are registered
AiReloadConfig ==
    /\ \E m \in AiManagers : ai_manager' = m
    /\ ai_manager' # ai_manager
    /\ best' = None
    /\ UNCHANGED <<syncVars, metrics_history, collector, response>>

\* a call of get_best_provider, with some of the providers available
GetBestProviderCall ==
    /\ \E available \in SUBSET ProviderNames :
          best' = Some([available |-> available,
                        provider |-> GetBestProvider(ai_manager, available)])
    /\ UNCHANGED <<syncVars, metrics_history, collector, response, ai_manager>>

\* the steps of the manager thread and of the sync runs
Manager ==
    \/ Run
    \/ SetupConnection
    \/ SetupDone
    \/ RunPending
    \/ ReloadConfig
    \/ FinishRun

Next == EditStore(SchedDescs) \/ Manager

Spec == Init(SchedDescs) /\ [][Next]_vars

NextPairs == EditStore(PairDescs) \/ Manager

SpecPairs == Init(PairDescs) /\ [][NextPairs]_vars

NextTriggers == EditStore(TriggerDescs) \/ Manager

SpecTriggers == Init(TriggerDescs) /\ [][NextTriggers]_vars

\* the manager with every command of the sync scripts as a possible failure,
\* and the end of the process
NextRuns ==
    \/ EditStore(ScriptDescs)
    \/ Run
    \/ SetupConnection
    \/ SetupDone
    \/ RunPending
    \/ ReloadConfig
    \/ FinishRunOn(ScriptOutcomes)
    \/ Shutdown

SpecRuns == Init(ScriptDescs) /\ [][NextRuns]_vars

\* the manager over the faulty descriptors and files.  DatabaseSync() itself
\* raises on an empty file (line 97), so a manager never starts from one.
NextFaults == EditStore(FaultDescs) \/ BreakFile \/ Manager

SpecFaults ==
    /\ InitFrom(Stores(FaultDescs) \cup {Fault(kind) : kind \in FaultKinds \ {"empty"}})
    /\ [][NextFaults]_vars

\* the manager over the descriptors with startup runs
NextStartup == EditStore(StartupDescs) \/ Manager

SpecStartup == Init(StartupDescs) /\ [][NextStartup]_vars

\* the manager over the descriptors with the aliases of PostgreSQL
NextAliases == EditStore(AliasDescs) \/ Manager

SpecAliases == Init(AliasDescs) /\ [][NextAliases]_vars

\* the metric collector and the requests for the metric history
NextMetrics ==
    \/ CollectRaises
    \/ AppendCpu
    \/ AppendMemory
    \/ TrimCpu
    \/ TrimMemory
    \/ PerformanceHistoryRequest

SpecMetrics == Init({}) /\ [][NextMetrics]_vars

\* the AIManager and the calls of get_best_provider
NextProviders == AiReloadConfig \/ GetBestProviderCall

SpecProviders == Init({}) /\ [][NextProviders]_vars

\* ------------------------------------------------------------------ claims
\* the connection self.config holds under the name n, if any
Loaded(n) == Lookup(config.sync.connections, n)

\* a reconciliation pass (the initial setup_jobs or a _reload_config) is over
PassOver == pc = "loop"

TaskTriggers(list) == SelectSeqBy(list, {x \in Range(list) : x.owner \in Names})

C8_FailureKeepsTimestamp ==
    (/\ lastRun # None
     /\ lastRun[1].raised
     /\ lastRun[1].prior # None
     /\ lastRun[1].prior[1].status = "success") =>
        statuses[lastRun[1].name][1].last_run = lastRun[1].prior[1].last_run

\* C8 amended: every run that reaches the dispatch replaces the task's record
\* by one stamped with the time of that run, with status success if and only
\* if the run succeeded and status error otherwise
C8_EveryRunStampsRecord ==
    (lastRun # None /\ lastRun[1].dispatched) =>
        LET r == statuses[lastRun[1].name]
        IN  /\ r # None
            /\ r[1].last_run = lastRun[1].at
            /\ r[1].status = IF lastRun[1].raised THEN "error" ELSE "success"

\* a run has failed for a task whose record was written by a successful run
C8_Witness ==
    /\ lastRun # None
    /\ lastRun[1].raised
    /\ lastRun[1].prior # None
    /\ lastRun[1].prior[1].status = "success"
    /\ statuses[lastRun[1].name][1].status = "error"

\* C9 as stated: a record once written is never modified or removed
C9_AppendOnly ==
    [][\A n \in Names : statuses[n] # None => statuses'[n] = statuses[n]]_vars

\* C9 amended: the status file keeps one record per task name; a record once
\* written is never removed, and it is replaced only by the record of a later
\* run of the same name
C9_LatestRecordPerName ==
    [][\A n \in Names :
          statuses[n] # None =>
              /\ statuses'[n] # None
              /\ \/ statuses'[n] = statuses[n]
                 \/ /\ Len(running') < Len(running)
                    /\ lastRun'[1].name = n
                    /\ statuses'[n][1].last_run > statuses[n][1].last_run]_vars

\* a second run of a task has replaced the record of its first run while the
\* other task's record is still there
C9_Witness ==
    /\ lastRun # None
    /\ lastRun[1].prior # None
    /\ statuses[lastRun[1].name] # lastRun[1].prior

\* the last run was between two PostgreSQL engines
LastRunIsPostgres ==
    /\ Normalize(Lower(lastRun[1].source_type)) = "postgresql"
    /\ Normalize(Lower(lastRun[1].target_type)) = "postgresql"

\* the last run was between two MySQL engines
LastRunIsMysql ==
    /\ Lower(lastRun[1].source_type) = "mysql"
    /\ Lower(lastRun[1].target_type) = "mysql"

\* C10 as stated: a run for any pair other than PostgreSQL-to-PostgreSQL runs
\* no transfer and leaves a record of status error, message "unsupported pair"
C10_UnsupportedPairRecord ==
    (lastRun # None /\ ~LastRunIsPostgres) =>
        LET r == statuses[lastRun[1].name]
        IN  /\ lastRun[1].tool = "none"
            /\ r # None
            /\ r[1].last_run = lastRun[1].at
            /\ r[1].status = "error"
            /\ r[1].message = <<"unsupported pair">>

\* C10 amended: a run for InfluxDB-to-InfluxDB or for two different supported
\* engines runs no transfer and leaves a record of status error whose message
\* says the sync is not fully implemented yet; a run whose source or target
\* type is missing or unsupported runs no transfer and writes no record
C10_NotImplementedRecord ==
    (lastRun # None /\ ~LastRunIsPostgres /\ ~LastRunIsMysql) =>
        LET r == statuses[lastRun[1].name]
        IN  /\ lastRun[1].tool = "none"
            /\ IF lastRun[1].dispatched
               THEN /\ r # None
                    /\ r[1].last_run = lastRun[1].at
                    /\ r[1].status = "error"
                    /\ r[1].message[Len(r[1].message)] \in
                          {"InfluxDB sync not fully implemented yet",
                           "not fully implemented yet"}
               ELSE lastRun[1].writes = 0 /\ r = lastRun[1].prior

\* a run from MySQL to PostgreSQL has returned with its error recorded
C10_Witness ==
    /\ lastRun # None
    /\ lastRun[1].source_type = "mysql"
    /\ lastRun[1].target_type = "postgresql"
    /\ lastRun[1].dispatched
    /\ lastRun[1].raised
    /\ statuses[lastRun[1].name] # None

\* the run that returned last failed: its exception escaped _run_sync, or the
\* engine raised inside the dispatch
LastRunFailed(n) ==
    /\ lastRun # None
    /\ lastRun[1].name = n
    /\ lastRun[1].escaped \/ lastRun[1].raised

C12_LoopNeverTerminates == pc # "stopped"

\* the most recent reload read the file that is there now
ReloadedCurrentFile == pass.done /\ ~changed

\* C13: whenever the file cannot be read (it is missing, unreadable, corrupt
\* or empty), loading it yields the configuration without connections and
\* raises nothing: after a reload of such a file the manager is in its loop
\* with no task job
C13_UnreadableStoreIsZeroTasks ==
    (IsFault(store) /\ ReloadedCurrentFile) =>
        /\ config = DisabledConfig
        /\ pc # "stopped"
        /\ TaskJobs(jobs) = <<>>

RunReturns == Len(running) = 1 /\ running' = <<>>

HasSecret(connection) ==
    /\ ~RunSyncRaises(connection)
    /\ Secret \in {Field(connection.source, "password", ""),
                   Field(connection.target, "password", "")}

\* C18 as stated: when a stored secret that holds the separator does not
\* decrypt, the run is aborted before any transfer is started and writes
\* exactly one record, of status error
C18_BadSecretAbortsRun ==
    [][(RunReturns /\ HasSecret(running[1].conn)) =>
          LET n == running[1].conn.name
          IN  /\ lastRun'[1].tool = "none"
              /\ lastRun'[1].writes = 1
              /\ statuses'[n][1].status = "error"]_vars

\* C18 amended: a stored password is handed to the sync script as it is
\* stored: a run for a task whose password has the shape of a ciphertext and
\* is none goes through the engine dispatch, starts the script unless the
\* script cannot be started, and writes exactly one record, success when the
\* script exits with 0 and error otherwise
C18_SecretPassedAsStored ==
    [][(RunReturns /\ HasSecret(running[1].conn)) =>
          LET c == running[1].conn
              r == statuses'[c.name]
          IN  /\ Secret \in {ScriptPasswords(c.source, c.target).src_pass,
                             ScriptPasswords(c.source, c.target).tgt_pass}
              /\ lastRun'[1].dispatched
              /\ lastRun'[1].tool = "none" => lastRun'[1].message = <<"oserror">>
              /\ lastRun'[1].writes = 1
              /\ r # None
              /\ r[1].last_run = lastRun'[1].at
              /\ r[1].status = IF lastRun'[1].raised THEN "error" ELSE "success"]_vars

\* the job of a task with such a password has run the script to success
C18_Witness ==
    /\ edits = 0
    /\ ~IsFault(store)
    /\ Loaded("a") # None
    /\ HasSecret(Loaded("a")[1])
    /\ lastRun # None
    /\ lastRun[1].name = "a"
    /\ lastRun[1].tool = "postgresql_sync.sh"
    /\ ~lastRun[1].raised
    /\ statuses["a"] # None
    /\ statuses["a"][1].status = "success"

\* C19: every edit of the file is eventually reflected in the live job set.
\* The loop reloads the file exactly when it finds it changed, so an edit is
\* reflected only if it is either loaded or still pending: whenever the
\* manager is in its loop with no change pending, the configuration it has
\* loaded is the one the file holds
C19_EditsAreReflected ==
    (PassOver /\ ~changed) => config = LoadConfig(store)

OtherJobs(jobList) == SelectSeqBy(jobList, {j \in Range(jobList) : j.conn = None})

LastRunRanPgScript ==
    /\ lastRun # None
    /\ lastRun[1].tool = "postgresql_sync.sh"

\* wherever both commands were run, x was run before y
Before(steps, x, y) ==
    \A i, j \in DOMAIN steps : (steps[i] = x /\ steps[j] = y) => i < j

\* C22 as stated: in every PostgreSQL-to-PostgreSQL run the target database is
\* dropped and created as the first phase, before the source is dumped and
\* before the import
C22_DropIsFirstPhase ==
    LastRunRanPgScript =>
        /\ lastRun[1].steps[1] = "drop"
        /\ Before(lastRun[1].steps, "create", "dump")
        /\ Before(lastRun[1].steps, "create", "import")

\* C22 amended: in every PostgreSQL-to-PostgreSQL run the dump of the source
\* is the first command; the target database is dropped and created only
\* when the option drop_target_first is true, after the dump and before the
\* import; without the option a run drops and creates nothing.  A run with
\* the option that succeeds has run dump, drop, create, import and cleanup in
\* this order
C22_DropAfterDumpWhenAsked ==
    LastRunRanPgScript =>
        LET steps == lastRun[1].steps
        IN  /\ steps[1] = "dump"
            /\ Before(steps, "dump", "drop")
            /\ Before(steps, "drop", "create")
            /\ Before(steps, "create", "import")
            /\ ~lastRun[1].drop_target => {"drop", "create"} \cap Range(steps) = {}
            /\ (lastRun[1].drop_target /\ "import" \in Range(steps)) =>
                  {"drop", "create"} \subseteq Range(steps)
            /\ (lastRun[1].drop_target /\ ~lastRun[1].raised) =>
                  steps = <<"dump", "drop", "create", "import", "cleanup">>

\* a run with drop_target_first has succeeded
C22_Witness ==
    /\ LastRunRanPgScript
    /\ lastRun[1].drop_target
    /\ ~lastRun[1].raised
    /\ "create" \in Range(lastRun[1].steps)

C24_FailureStopsLaterPhases ==
    (LastRunRanPgScript /\ lastRun[1].failed # "none") =>
        LET steps == lastRun[1].steps
            r == statuses[lastRun[1].name]
        IN  /\ steps[Len(steps)] = lastRun[1].failed
            /\ \A i \in 1..(Len(steps) - 1) : steps[i] # lastRun[1].failed
            /\ lastRun[1].failed = "dump" => steps = <<"dump">>
            /\ lastRun[1].failed # "cleanup" => "cleanup" \notin Range(steps)
            /\ lastRun[1].failed \notin {"import", "cleanup"} => "import" \notin Range(steps)
            /\ lastRun[1].raised
            /\ lastRun[1].writes = 1
            /\ r # None
            /\ r[1].last_run = lastRun[1].at
            /\ r[1].status = "error"
            /\ r[1].message = <<"PostgreSQL", "sync failed:", "stderr">>

\* the creation of the target database has failed in a run, after its drop
C24_Witness ==
    /\ LastRunRanPgScript
    /\ lastRun[1].failed = "create"
    /\ lastRun[1].steps = <<"dump", "drop", "create">>
    /\ statuses[lastRun[1].name] # None
    /\ statuses[lastRun[1].name][1].status = "error"

LastRunRanScript ==
    /\ lastRun # None
    /\ lastRun[1].tool \in {"postgresql_sync.sh", "mysql_sync.sh"}

\* the commands of the scripts that change the target database
TargetSteps == {"drop", "create", "import"}

\* C28: in a run of the PostgreSQL or of the MySQL script, a dump that fails
\* is the only command of the run: the target is neither dropped nor
\* created nor imported into; and every command that changes the target is
\* run after the dump, in a run whose dump did not fail
C28_TargetUntouchedWhenDumpFails ==
    LastRunRanScript =>
        LET steps == lastRun[1].steps
        IN  /\ lastRun[1].failed = "dump" =>
                  /\ Range(steps) \cap TargetSteps = {}
                  /\ lastRun[1].raised
            /\ \A i \in DOMAIN steps :
                  steps[i] \in TargetSteps =>
                      /\ lastRun[1].failed # "dump"
                      /\ \E j \in 1..(i - 1) : steps[j] = "dump"

\* the dump of a MySQL run that was to drop the target first has failed
C28_Witness ==
    /\ lastRun # None
    /\ lastRun[1].tool = "mysql_sync.sh"
    /\ lastRun[1].drop_target
    /\ lastRun[1].failed = "dump"
    /\ lastRun[1].steps = <<"dump">>

\* a connection of the loaded configuration that asks for a startup run
WantsStartupRun(conn) == conn.enabled /\ conn.run_on_startup

PgAliases == {"postgres", "postgresql", "Postgres", "PostgreSQL", "POSTGRES"}

KnownTypes == PgAliases \cup {"mysql", "MySQL", "influxdb"}

\* C30: a run whose source and target type are each postgres or postgresql,
\* in any letter case, goes to the PostgreSQL pipeline: it starts
\* postgresql_sync.sh, or fails to start it, and its record is that of the
\* PostgreSQL pipeline, never that of the generic path; a run whose source or
\* target type is missing or is no known engine goes to no pipeline: it
\* starts nothing and writes no record
C30_AliasesSelectPostgresPipeline ==
    lastRun # None =>
        LET r == statuses[lastRun[1].name]
        IN  /\ (lastRun[1].source_type \in PgAliases /\ lastRun[1].target_type \in PgAliases) =>
                  /\ lastRun[1].dispatched
                  /\ lastRun[1].tool = "postgresql_sync.sh" \/ lastRun[1].message = <<"oserror">>
                  /\ lastRun[1].message \in
                        {<<>>, <<"oserror">>, <<"PostgreSQL", "sync failed:", "stderr">>}
                  /\ lastRun[1].writes = 1
                  /\ r # None
                  /\ r[1].status = IF lastRun[1].raised THEN "error" ELSE "success"
            /\ (lastRun[1].source_type \notin KnownTypes \/ lastRun[1].target_type \notin KnownTypes) =>
                  /\ ~lastRun[1].dispatched
                  /\ ~lastRun[1].escaped
                  /\ lastRun[1].tool = "none"
                  /\ lastRun[1].message = <<>>
                  /\ lastRun[1].writes = 0
                  /\ r = lastRun[1].prior

\* a run from POSTGRES to postgres has run the PostgreSQL script to success
C30_Witness ==
    /\ lastRun # None
    /\ lastRun[1].source_type = "POSTGRES"
    /\ lastRun[1].target_type = "postgres"
    /\ lastRun[1].tool = "postgresql_sync.sh"
    /\ ~lastRun[1].raised
    /\ statuses[lastRun[1].name] # None
    /\ statuses[lastRun[1].name][1].status = "success"

C32_SeriesWithinMaxHistory ==
    /\ \A m \in MetricNames : Len(metrics_history[m]) <= MAX_HISTORY
    /\ response # None => Len(response[1].series) <= MAX_HISTORY

\* the n most recent of the samples 1..last, in collection order
Recent(last, n) == [i \in 1..n |-> last - n + i]

Min(x, y) == IF x < y THEN x ELSE y

\* C33: after n completed calls of collect_metrics each series holds exactly
\* the samples of the last min(n, MAX_HISTORY) calls in collection order;
\* inside call n + 1 a series holds that sample as well once it is appended,
\* and the oldest sample no longer once the series is trimmed: a call evicts
\* at most one sample of a series, the oldest
C33_SeriesHoldMostRecent ==
    LET n == collector.done
        before == Recent(n, Min(n, MAX_HISTORY))
        appended == Recent(n + 1, Min(n, MAX_HISTORY) + 1)
        after == Recent(n + 1, Min(n + 1, MAX_HISTORY))
    IN  CASE collector.pc = "idle" ->
                 metrics_history = [m \in MetricNames |-> before]
          [] collector.pc = "append_memory" ->
                 metrics_history = [cpu |-> appended, memory |-> before]
          [] collector.pc = "trim_cpu" ->
                 metrics_history = [m \in MetricNames |-> appended]
          [] collector.pc = "trim_memory" ->
                 metrics_history = [cpu |-> after, memory |-> appended]

\* collect_metrics has completed more calls than a series holds samples, one
\* further call has raised, and the series hold the last MAX_HISTORY samples
C33_Witness ==
    /\ collector.pc = "idle"
    /\ collector.done = MAX_HISTORY + 1
    /\ collector.errors = 1
    /\ Len(metrics_history.cpu) = MAX_HISTORY
    /\ metrics_history.cpu[1] = 2
    /\ metrics_history.memory[MAX_HISTORY] = MAX_HISTORY + 1

\* C34: for a metric that is in the history and a limit >= 0 the endpoint
\* returns at most limit samples, the most recent ones of the series it
\* found, in collection order
C34_AtMostLimitSamples ==
    (response # None /\ response[1].success /\ response[1].limit >= 0) =>
        LET r == response[1]
            k == Min(r.limit, Len(r.series))
        IN  /\ Len(r.history) <= r.limit
            /\ r.history = SubSeq(r.series, Len(r.series) - k + 1, Len(r.series))

\* C35: get_best_provider returns the default provider whenever that is
\* registered and available; otherwise the first provider in the order
\* openai, perplexity, llama, sqlpal that is registered and available; and
\* None exactly when no registered provider is available
C35_BestProviderChoice ==
    best # None =>
        LET usable == ai_manager.providers \cap best[1].available
            d == ai_manager.default_provider
            chosen == best[1].provider
        IN  /\ (d # None /\ d[1] \in usable) => chosen = d
            /\ ~(d # None /\ d[1] \in usable) =>
                  \/ /\ usable = {}
                     /\ chosen = None
                  \/ \E i \in DOMAIN Priority :
                        /\ chosen = Some(Priority[i])
                        /\ Priority[i] \in usable
                        /\ \A j \in 1..(i - 1) : Priority[j] \notin usable
            /\ (chosen = None) = (usable = {})

\* the default provider sqlpal is registered and available next to openai,
\* and get_best_provider has returned it
C35_Witness ==
    /\ ai_manager.default_provider = Some("sqlpal")
    /\ best # None
    /\ {"openai", "sqlpal"} \subseteq ai_manager.providers \cap best[1].available
    /\ best[1].provider = Some("sqlpal")

====
